---- MODULE Spec2Model ----
(***************************************************************************)
(* Driverscash WhatsApp webhook (src/main.py): the command grammar, the    *)
(* numeric conversions, the record / reminder store and the maintenance    *)
(* alert rule, as a state machine over the remote row store.               *)
(*                                                                         *)
(* A message body is a sequence of tokens separated by single blanks.  A   *)
(* word token is an atom (its letters are not inspected); a numeric token  *)
(* is the sequence of its characters, every one in the class [\d.,].       *)
(* Numbers are exact rationals [n, d] in lowest terms.                     *)
(***************************************************************************)
EXTENDS Integers, Sequences, FiniteSets, TLC

VARIABLES records, reminders, last, requests

vars == <<records, reminders, last, requests>>

-----------------------------------------------------------------------------
(* Bounds of the model                                                     *)

\* rows the whole store may hold under Spec (records and reminders together)
MaxRows == 1

\* rows the whole store may hold under SpecStore
MaxStoreRows == 3

\* characters of the numeric tokens drawn under SpecTokens
MaxTokenLen == 3

-----------------------------------------------------------------------------
(* Exact arithmetic                                                        *)

Max(S) == CHOOSE x \in S : \A y \in S : y <= x

RECURSIVE GCD(_, _)
GCD(a, b) == IF b = 0 THEN a ELSE GCD(b, a % b)

Abs(n) == IF n < 0 THEN -n ELSE n

\* the rational n/d (d > 0) in lowest terms
Rat(n, d) == LET g == GCD(Abs(n), d) IN [n |-> n \div g, d |-> d \div g]

RatInt(k) == [n |-> k, d |-> 1]
RatMul(a, b) == Rat(a.n * b.n, a.d * b.d)
RatAdd(a, b) == Rat(a.n * b.d + b.n * a.d, a.d * b.d)
RatSub(a, b) == Rat(a.n * b.d - b.n * a.d, a.d * b.d)
RatDiv(a, b) == IF b.n > 0 THEN Rat(a.n * b.d, a.d * b.n) ELSE Rat(-(a.n * b.d), a.d * (-b.n))
RatLess(a, b) == a.n * b.d < b.n * a.d
RatGeq(a, b) == ~RatLess(a, b)

\* Python's None in a numeric column
None == [n |-> 0, d |-> 0]

RECURSIVE Pow10(_)
Pow10(k) == IF k = 0 THEN 1 ELSE 10 * Pow10(k - 1)

\* f"{x:.kf}": x rounded to k decimals, ties to even
Format(x, k) ==
    LET num == x.n * Pow10(k)
        q == num \div x.d
        r == num % x.d
        up == 2 * r > x.d \/ (2 * r = x.d /\ q % 2 = 1)
    IN Rat(IF up THEN q + 1 ELSE q, Pow10(k))

-----------------------------------------------------------------------------
(* Numeric tokens                                                          *)

Digits == {"0", "1", "2", "3", "4", "5", "6", "7", "8", "9"}

DigitVal(c) ==
    CASE c = "0" -> 0 [] c = "1" -> 1 [] c = "2" -> 2 [] c = "3" -> 3
      [] c = "4" -> 4 [] c = "5" -> 5 [] c = "6" -> 6 [] c = "7" -> 7
      [] c = "8" -> 8 [] c = "9" -> 9

\* str.replace(a, b) for one-character a and b
replace(s, a, b) == [i \in 1..Len(s) |-> IF s[i] = a THEN b ELSE s[i]]

\* str.replace(a, '')
remove(s, a) == SelectSeq(s, LAMBDA c : c # a)

RECURSIVE DigitsToInt(_)
DigitsToInt(s) ==
    IF s = <<>> THEN 0
    ELSE 10 * DigitsToInt(SubSeq(s, 1, Len(s) - 1)) + DigitVal(s[Len(s)])

\* float(s) for s over [\d.,]: ok = FALSE stands for ValueError
float(s) ==
    LET dots == {i \in 1..Len(s) : s[i] = "."}
        digs == SelectSeq(s, LAMBDA c : c \in Digits)
        valid == /\ \A i \in 1..Len(s) : s[i] \in Digits \cup {"."}
                 /\ Cardinality(dots) <= 1
                 /\ Len(digs) >= 1
        frac == IF dots = {} THEN 0 ELSE Len(s) - Max(dots)
    IN IF valid THEN [ok |-> TRUE, val |-> Rat(DigitsToInt(digs), Pow10(frac))]
       ELSE [ok |-> FALSE, val |-> None]

\* currency and volume tokens: group.replace(',', '.')
parse_value(tok) == float(replace(tok, ",", "."))

\* the odometer conversion without .replace('.', '')
parse_km_keeping_dots(tok) == float(replace(tok, ",", "."))

\* odometer tokens: group.replace('.', '').replace(',', '.')
parse_km(tok) == float(replace(remove(tok, "."), ",", "."))

-----------------------------------------------------------------------------
(* Tokens and message bodies                                               *)

W(w) == [w |-> w, n |-> <<>>]
N(chars) == [w |-> "#", n |-> chars]

\* tokens holding a character outside the letter class of the patterns
NonLetterWords == {"?", "#"}

IsNum(t) == t.n # <<>>
IsAlpha(t) == t.n = <<>> /\ t.w \notin NonLetterWords

\* str.lower() on a word
lower_word(w) ==
    CASE w = "KM" -> "km"
      [] w = "GASTO" -> "gasto"
      [] w = "POSTO" -> "posto"
      [] w = "Lembrete" -> "lembrete"
      [] w = "Oleo" -> "oleo"
      [] OTHER -> w

\* message_body.lower()
lower(body) == [i \in 1..Len(body) |-> [w |-> lower_word(body[i].w), n |-> body[i].n]]

\* str.capitalize() on a lower-case word
capitalize_word(w) ==
    CASE w = "mercado" -> "Mercado"
      [] w = "corrida" -> "Corrida"
      [] w = "perfume" -> "Perfume"
      [] w = "oleo" -> "Oleo"
      [] w = "pneu" -> "Pneu"
      [] w = "de" -> "De"
      [] w = "gasolina" -> "Gasolina"
      [] w = "etanol" -> "Etanol"
      [] w = "posto" -> "Posto"
      [] w = "lembrete" -> "Lembrete"
      [] w = "concluido" -> "Concluido"
      [] w = "km" -> "Km"
      [] w = "despesa" -> "Despesa"
      [] w = "receita" -> "Receita"

\* group.strip().capitalize() on a captured run of words
capitalize(ws) == IF ws = <<>> THEN <<>> ELSE <<capitalize_word(ws[1])>> \o Tail(ws)

-----------------------------------------------------------------------------
(* The command patterns, on a lower-cased body.  re.match anchors at the   *)
(* start only, so a pattern matches a prefix of the body.                  *)

NoMatch == [ok |-> FALSE, text |-> <<>>, nums |-> <<>>, fuel |-> ""]

Matched(text, nums, fuel) == [ok |-> TRUE, text |-> text, nums |-> nums, fuel |-> fuel]

\* the body starts with the literal words kws
HasPrefix(b, kws) ==
    /\ Len(b) >= Len(kws)
    /\ \A i \in 1..Len(kws) : b[i].n = <<>> /\ b[i].w = kws[i]

\* the end of the longest run of letter words that starts at token i
AlphaEnd(b, i) == Max({j \in (i - 1)..Len(b) : \A k \in i..j : IsAlpha(b[k])})

Words(b, i, j) == [k \in 1..(j - i + 1) |-> b[i + k - 1].w]

\* (?:de\s+)? in front of a text group that needs at least one word
OptDe(ws) == IF Len(ws) >= 2 /\ ws[1] = "de" THEN Tail(ws) ELSE ws

\* kws\s+(?:de\s+)?([a-zA-Z...\s]+)\s+([\d\.,]+)
KeywordTextNumber(b, kws) ==
    LET i == Len(kws) + 1
        j == AlphaEnd(b, i)
    IN IF HasPrefix(b, kws) /\ j >= i /\ j < Len(b) /\ IsNum(b[j + 1])
       THEN Matched(OptDe(Words(b, i, j)), <<b[j + 1].n>>, "")
       ELSE NoMatch

match_despesa(b) == KeywordTextNumber(b, <<"despesa">>)

match_receita(b) == KeywordTextNumber(b, <<"receita">>)

match_faturamento_extra(b) == KeywordTextNumber(b, <<"faturamento", "extra">>)

\* (?:faturamento\s+diario|diario\s+faturamento)\s+([\d\.,]+)
match_faturamento_diario(b) ==
    IF /\ HasPrefix(b, <<"faturamento", "diario">>) \/ HasPrefix(b, <<"diario", "faturamento">>)
       /\ Len(b) >= 3
       /\ IsNum(b[3])
    THEN Matched(<<>>, <<b[3].n>>, "")
    ELSE NoMatch

\* abastecer\s+([\d\.,]+)\s+([\d\.,]+)\s+(gasolina|etanol)\s+([\d\.,]+)
match_abastecer(b) ==
    IF /\ HasPrefix(b, <<"abastecer">>)
       /\ Len(b) >= 5
       /\ IsNum(b[2]) /\ IsNum(b[3])
       /\ b[4].n = <<>> /\ b[4].w \in {"gasolina", "etanol"}
       /\ IsNum(b[5])
    THEN Matched(<<>>, <<b[2].n, b[3].n, b[5].n>>, b[4].w)
    ELSE NoMatch

\* km\s+([\d\.,]+)
match_km(b) ==
    IF HasPrefix(b, <<"km">>) /\ Len(b) >= 2 /\ IsNum(b[2])
    THEN Matched(<<>>, <<b[2].n>>, "")
    ELSE NoMatch

\* kws followed by three numeric tokens
KeywordThreeNumbers(b, kws) ==
    LET i == Len(kws) IN
    IF /\ HasPrefix(b, kws)
       /\ Len(b) >= i + 3
       /\ IsNum(b[i + 1]) /\ IsNum(b[i + 2]) /\ IsNum(b[i + 3])
    THEN Matched(<<>>, <<b[i + 1].n, b[i + 2].n, b[i + 3].n>>, "")
    ELSE NoMatch

match_calcular_consumo(b) == KeywordThreeNumbers(b, <<"calcular", "consumo">>)

match_custo_combustivel(b) == KeywordThreeNumbers(b, <<"calcular", "custo", "combustivel">>)

\* (?:relat[oó]rio\s+(?:de\s+)?km|km\s+relat[oó]rio)
match_relatorio_km_request(b) ==
    IF \/ HasPrefix(b, <<"relatorio", "km">>)
       \/ HasPrefix(b, <<"relatorio", "de", "km">>)
       \/ HasPrefix(b, <<"km", "relatorio">>)
    THEN Matched(<<>>, <<>>, "")
    ELSE NoMatch

\* lembrete\s+(?:de\s+)?([a-zA-Z...\s]+)\s+km\s+([\d\.,]+)
\* the text group is greedy over letter words and gives back the last "km"
match_lembrete_manutencao(b) ==
    LET j == AlphaEnd(b, 2) IN
    IF /\ HasPrefix(b, <<"lembrete">>)
       /\ j >= 3
       /\ b[j].w = "km"
       /\ j < Len(b)
       /\ IsNum(b[j + 1])
    THEN Matched(OptDe(Words(b, 2, j - 1)), <<b[j + 1].n>>, "")
    ELSE NoMatch

\* lembrete\s+concluido\s+([a-zA-Z...\s]+)
concluido_pattern_1(b) ==
    LET j == AlphaEnd(b, 3) IN
    IF HasPrefix(b, <<"lembrete", "concluido">>) /\ j >= 3
    THEN Matched(Words(b, 3, j), <<>>, "")
    ELSE NoMatch

\* ([a-zA-Z...\s]+)\s+lembrete\s+concluido   (greedy: the last such pair)
concluido_pattern_2(b) ==
    LET j == AlphaEnd(b, 1)
        S == {i \in 2..(j - 1) : b[i].w = "lembrete" /\ b[i + 1].w = "concluido"}
    IN IF S # {} THEN Matched(Words(b, 1, Max(S) - 1), <<>>, "") ELSE NoMatch

\* lembrete\s+de\s+([a-zA-Z...\s]+)\s+concluido
concluido_pattern_3(b) ==
    LET j == AlphaEnd(b, 3)
        S == {i \in 4..j : b[i].w = "concluido"}
    IN IF HasPrefix(b, <<"lembrete", "de">>) /\ S # {}
       THEN Matched(Words(b, 3, Max(S) - 1), <<>>, "")
       ELSE NoMatch

\* ([a-zA-Z...\s]+)\s+de\s+lembrete\s+concluido
concluido_pattern_4(b) ==
    LET j == AlphaEnd(b, 1)
        S == {i \in 2..(j - 2) : /\ b[i].w = "de"
                                  /\ b[i + 1].w = "lembrete"
                                  /\ b[i + 2].w = "concluido"}
    IN IF S # {} THEN Matched(Words(b, 1, Max(S) - 1), <<>>, "") ELSE NoMatch

\* the complete-reminder match with the first phrasing only
match_concluido_first_pattern(b) == concluido_pattern_1(b)

\* for pattern in match_concluido_patterns: ... break
match_concluido_patterns(b) ==
    IF concluido_pattern_1(b).ok THEN concluido_pattern_1(b)
    ELSE IF concluido_pattern_2(b).ok THEN concluido_pattern_2(b)
    ELSE IF concluido_pattern_3(b).ok THEN concluido_pattern_3(b)
    ELSE concluido_pattern_4(b)

\* (?:meus\s+lembretes|lembretes\s+ativos|listar\s+lembretes)
match_meus_lembretes(b) ==
    IF \/ HasPrefix(b, <<"meus", "lembretes">>)
       \/ HasPrefix(b, <<"lembretes", "ativos">>)
       \/ HasPrefix(b, <<"listar", "lembretes">>)
    THEN Matched(<<>>, <<>>, "")
    ELSE NoMatch

\* relat[oó]rio\s+(?:semana\s+financeiro|financeiro\s+semanal)
match_relatorio_semanal_financeiro(b) ==
    IF \/ HasPrefix(b, <<"relatorio", "semana", "financeiro">>)
       \/ HasPrefix(b, <<"relatorio", "financeiro", "semanal">>)
    THEN Matched(<<>>, <<>>, "")
    ELSE NoMatch

\* relat[oó]rio\s+(?:m[eê]s\s+financeiro|financeiro\s+mensal)
match_relatorio_mensal_financeiro(b) ==
    IF \/ HasPrefix(b, <<"relatorio", "mes", "financeiro">>)
       \/ HasPrefix(b, <<"relatorio", "financeiro", "mensal">>)
    THEN Matched(<<>>, <<>>, "")
    ELSE NoMatch

-----------------------------------------------------------------------------
(* The row store: one records table and one reminders table per table path *)

ChatUsers == {"u1", "u2"}

\* the sender of the messages of Spec
GrammarUsers == {"u1"}

ApiUsers == {"f1"}

AllUsers == ChatUsers \cup ApiUsers

\* artifacts/{app_id}/users/{whatsapp_user_id}/records: one path per user id
records_table_path(whatsapp_user_id) == whatsapp_user_id

\* one reminders table for every user
reminders_table_path_shared(whatsapp_user_id) == "u1"

\* artifacts/{app_id}/users/{whatsapp_user_id}/reminders
reminders_table_path(whatsapp_user_id) == whatsapp_user_id

\* datetime.now(): the day of the run, with the attributes the code reads
today == [ordinal |-> 0, weekday |-> 0, day |-> 1, days_in_month |-> 30]

\* datetime.now().strftime("%Y-%m-%d")
current_date == today.ordinal

record_data(user_id, origem, tipo_registro, categoria, valor, quantidade, observacoes) ==
    [user_id |-> user_id, origem |-> origem, data |-> current_date,
     tipo_registro |-> tipo_registro, categoria |-> categoria, valor |-> valor,
     quantidade |-> quantidade, observacoes |-> observacoes]

reminder_data(user_id, tipo_manutencao, km_alvo) ==
    [user_id |-> user_id, tipo_manutencao |-> tipo_manutencao, km_alvo |-> km_alvo,
     data_configuracao |-> current_date, status |-> "Ativo"]

\* an insert that replaces the rows of the table
insert_replacing(table, path, row) == [table EXCEPT ![path] = <<row>>]

\* supabase.from_(path).insert(row).execute(), when the store accepts it
insert(table, path, row) == [table EXCEPT ![path] = Append(@, row)]

\* the select without .eq('status', 'Ativo')
select_active_any_status(table, path, user) ==
    SelectSeq(table[path], LAMBDA r : r.user_id = user)

\* .select(...).eq('user_id', user).eq('status', 'Ativo')
select_active(table, path, user) ==
    SelectSeq(table[path], LAMBDA r : r.user_id = user /\ r.status = "Ativo")

\* .select(...).eq('user_id', user).eq('tipo_registro', 'KM')
select_km(table, path, user) ==
    SelectSeq(table[path], LAMBDA r : r.user_id = user /\ r.tipo_registro = "KM")

\* .select(...).eq('user_id', user)
select_user(table, path, user) == SelectSeq(table[path], LAMBDA r : r.user_id = user)

\* the update filter without .eq('tipo_manutencao', ..)
concluir_filter_any_type(r, user, tipo) ==
    r.user_id = user /\ r.status = "Ativo"

\* the update filter without .eq('status', 'Ativo')
concluir_filter_any_status(r, user, tipo) ==
    r.user_id = user /\ r.tipo_manutencao = tipo

\* the filter of the complete-reminder update
concluir_filter(r, user, tipo) ==
    r.user_id = user /\ r.tipo_manutencao = tipo /\ r.status = "Ativo"

\* .update({'status': 'Concluído'}).eq('user_id', ..).eq('tipo_manutencao', ..).eq('status', 'Ativo')
update_concluido(table, path, user, tipo) ==
    [table EXCEPT ![path] =
        [i \in 1..Len(@) |-> IF concluir_filter(@[i], user, tipo)
                             THEN [@[i] EXCEPT !.status = "Concluido"]
                             ELSE @[i]]]

\* update_response.data holding the rows of the type whatever their status
update_data_any_status(table, path, user, tipo) ==
    SelectSeq(table[path], LAMBDA r : r.user_id = user /\ r.tipo_manutencao = tipo)

\* update_response.data: the rows the update changed
update_data(table, path, user, tipo) ==
    SelectSeq(table[path], LAMBDA r : concluir_filter(r, user, tipo))

\* one store call as the store saw it
Call(op, table, path, user, ok) ==
    [op |-> op, table |-> table, path |-> path, user |-> user, ok |-> ok]

-----------------------------------------------------------------------------
(* Replies and handler results                                             *)

Reply(kind, tipo, nums, alerts) == [kind |-> kind, tipo |-> tipo, nums |-> nums, alerts |-> alerts]

\* return create_twiml_response(reply)
Return(handler, reply, recs, rems, calls) ==
    [handler |-> handler, ret |-> <<reply>>, exc |-> "", records |-> recs,
     reminders |-> rems, calls |-> calls]

\* an exception leaves the handler
Raise(handler, exc, recs, rems, calls) ==
    [handler |-> handler, ret |-> <<>>, exc |-> exc, records |-> recs,
     reminders |-> rems, calls |-> calls]

\* the record insert issued a second time after a failure
InsertRecord_retrying(handler, user, row, reply, avail, recs, rems) ==
    LET path == records_table_path(user) IN
    IF avail[1]
    THEN Return(handler, reply, insert(recs, path, row), rems,
                <<Call("insert", "records", path, row.user_id, TRUE)>>)
    ELSE Return(handler, reply, insert(recs, path, row), rems,
                <<Call("insert", "records", path, row.user_id, FALSE),
                  Call("insert", "records", path, row.user_id, TRUE)>>)

\* a record insert followed by the success reply
InsertRecord(handler, user, row, reply, avail, recs, rems) ==
    LET path == records_table_path(user) IN
    IF avail[1]
    THEN Return(handler, reply, insert(recs, path, row), rems,
                <<Call("insert", "records", path, row.user_id, TRUE)>>)
    ELSE Raise(handler, "StoreUnavailable", recs, rems,
               <<Call("insert", "records", path, row.user_id, FALSE)>>)

\* the expense handler without the ValueError guard around float()
handle_despesa_unguarded(user, m, avail, recs, rems) ==
    LET expense_type == capitalize(m.text)
        amount == parse_value(m.nums[1])
    IN IF ~amount.ok
       THEN Raise("despesa", "ValueError", recs, rems, <<>>)
       ELSE InsertRecord("despesa", user,
                record_data(user, "WhatsApp", "Despesa", expense_type, amount.val, None, <<>>),
                Reply("despesa_ok", expense_type, <<Format(amount.val, 2)>>, <<>>),
                avail, recs, rems)

handle_despesa(user, m, avail, recs, rems) ==
    LET expense_type == capitalize(m.text)
        amount == parse_value(m.nums[1])
    IN IF ~amount.ok
       THEN Return("despesa", Reply("valor_invalido_despesa", <<>>, <<>>, <<>>), recs, rems, <<>>)
       ELSE InsertRecord("despesa", user,
                record_data(user, "WhatsApp", "Despesa", expense_type, amount.val, None, <<>>),
                Reply("despesa_ok", expense_type, <<Format(amount.val, 2)>>, <<>>),
                avail, recs, rems)

handle_receita(user, m, avail, recs, rems) ==
    LET income_type == capitalize(m.text)
        amount == parse_value(m.nums[1])
    IN IF ~amount.ok
       THEN Return("receita", Reply("valor_invalido_receita", <<>>, <<>>, <<>>), recs, rems, <<>>)
       ELSE InsertRecord("receita", user,
                record_data(user, "WhatsApp", "Receita", income_type, amount.val, None, <<>>),
                Reply("receita_ok", income_type, <<Format(amount.val, 2)>>, <<>>),
                avail, recs, rems)

handle_faturamento_extra(user, m, avail, recs, rems) ==
    LET extra_type == capitalize(m.text)
        amount == parse_value(m.nums[1])
    IN IF ~amount.ok
       THEN Return("faturamento_extra",
                   Reply("valor_invalido_faturamento_extra", <<>>, <<>>, <<>>), recs, rems, <<>>)
       ELSE InsertRecord("faturamento_extra", user,
                record_data(user, "WhatsApp", "Receita", <<"Extra:">> \o extra_type,
                            amount.val, None, <<>>),
                Reply("faturamento_extra_ok", extra_type, <<Format(amount.val, 2)>>, <<>>),
                avail, recs, rems)

handle_faturamento_diario(user, m, avail, recs, rems) ==
    LET amount == parse_value(m.nums[1])
    IN IF ~amount.ok
       THEN Return("faturamento_diario",
                   Reply("valor_invalido_faturamento_diario", <<>>, <<>>, <<>>), recs, rems, <<>>)
       ELSE InsertRecord("faturamento_diario", user,
                record_data(user, "WhatsApp", "Receita", <<"Faturamento", "Diario">>,
                            amount.val, None, <<>>),
                Reply("faturamento_diario_ok", <<>>, <<Format(amount.val, 2)>>, <<>>),
                avail, recs, rems)

handle_abastecer(user, m, avail, recs, rems) ==
    LET litros == parse_value(m.nums[1])
        valor_litro == parse_value(m.nums[2])
        tipo_combustivel == capitalize(<<m.fuel>>)
        km_atual == parse_km(m.nums[3])
        custo_total == RatMul(litros.val, valor_litro.val)
    IN IF ~(litros.ok /\ valor_litro.ok /\ km_atual.ok)
       THEN Return("abastecer", Reply("formato_invalido_abastecer", <<>>, <<>>, <<>>),
                   recs, rems, <<>>)
       ELSE InsertRecord("abastecer", user,
                record_data(user, "WhatsApp", "Despesa", <<"Combustivel", "-">> \o tipo_combustivel,
                            custo_total, litros.val,
                            <<Format(km_atual.val, 0), Format(valor_litro.val, 2)>>),
                Reply("abastecer_ok", tipo_combustivel,
                      <<Format(litros.val, 2), Format(custo_total, 2), Format(km_atual.val, 0)>>,
                      <<>>),
                avail, recs, rems)

\* KM before the target at which the alert starts
ALERT_MARGIN == 500

\* the alert rule with a strict comparison against the target
alert_for_strict(km_value, reminder) ==
    LET target_km_reminder == reminder.km_alvo IN
    IF /\ RatGeq(km_value, RatSub(target_km_reminder, RatInt(ALERT_MARGIN)))
       /\ RatLess(km_value, target_km_reminder)
    THEN <<[kind |-> "aproximando", tipo |-> reminder.tipo_manutencao,
            faltam |-> Format(RatSub(target_km_reminder, km_value), 0),
            km_alvo |-> Format(target_km_reminder, 0)]>>
    ELSE IF RatLess(target_km_reminder, km_value)
    THEN <<[kind |-> "ultrapassado", tipo |-> reminder.tipo_manutencao,
            faltam |-> None, km_alvo |-> Format(target_km_reminder, 0)]>>
    ELSE <<>>

\* the body of the loop over the active reminders: at most one alert per reminder
alert_for(km_value, reminder) ==
    LET target_km_reminder == reminder.km_alvo IN
    IF /\ RatGeq(km_value, RatSub(target_km_reminder, RatInt(ALERT_MARGIN)))
       /\ RatLess(km_value, target_km_reminder)
    THEN <<[kind |-> "aproximando", tipo |-> reminder.tipo_manutencao,
            faltam |-> Format(RatSub(target_km_reminder, km_value), 0),
            km_alvo |-> Format(target_km_reminder, 0)]>>
    ELSE IF RatGeq(km_value, target_km_reminder)
    THEN <<[kind |-> "ultrapassado", tipo |-> reminder.tipo_manutencao,
            faltam |-> None, km_alvo |-> Format(target_km_reminder, 0)]>>
    ELSE <<>>

\* for reminder in all_reminders: ... response_message += alert
RECURSIVE maintenance_alerts(_, _)
maintenance_alerts(km_value, all_reminders) ==
    IF all_reminders = <<>> THEN <<>>
    ELSE alert_for(km_value, Head(all_reminders))
         \o maintenance_alerts(km_value, Tail(all_reminders))

\* the alert block without its except clause: a failed read leaves the block
maintenance_alert_logic_uncaught(user, km_value, ok, rems) ==
    LET rpath == reminders_table_path(user)
        all_reminders == select_active(rems, rpath, user)
    IN [alerts |-> IF ok THEN maintenance_alerts(km_value, all_reminders) ELSE <<>>,
        calls |-> <<Call("select", "reminders", rpath, user, ok)>>,
        exc |-> IF ok THEN "" ELSE "StoreUnavailable"]

\* try: select the active reminders, one alert per reminder
\* except Exception as e_alert: only logged, nothing leaves the block
maintenance_alert_logic(user, km_value, ok, rems) ==
    LET rpath == reminders_table_path(user)
        all_reminders == select_active(rems, rpath, user)
    IN [alerts |-> IF ok THEN maintenance_alerts(km_value, all_reminders) ELSE <<>>,
        calls |-> <<Call("select", "reminders", rpath, user, ok)>>,
        exc |-> ""]

\* the KM update closing the reminders whose target the reading reached
handle_km_closing_reached(user, m, avail, recs, rems) ==
    LET km_value == parse_km(m.nums[1])
        path == records_table_path(user)
        rpath == reminders_table_path(user)
        row == record_data(user, "WhatsApp", "KM", <<"Registro", "de", "KM">>,
                           km_value.val, None, <<>>)
        ins(ok) == Call("insert", "records", path, user, ok)
        checked == maintenance_alert_logic(user, km_value.val, avail[2], rems)
        closed == [rems EXCEPT ![rpath] =
                      [i \in 1..Len(@) |->
                          IF /\ @[i].user_id = user
                             /\ @[i].status = "Ativo"
                             /\ RatGeq(km_value.val, @[i].km_alvo)
                          THEN [@[i] EXCEPT !.status = "Concluido"]
                          ELSE @[i]]]
    IN IF ~km_value.ok
       THEN Return("km", Reply("valor_invalido_km", <<>>, <<>>, <<>>), recs, rems, <<>>)
       ELSE IF ~avail[1]
       THEN Raise("km", "StoreUnavailable", recs, rems, <<ins(FALSE)>>)
       ELSE Return("km", Reply("km_ok", <<>>, <<Format(km_value.val, 2)>>, checked.alerts),
                   insert(recs, path, row), IF avail[2] THEN closed ELSE rems,
                   <<ins(TRUE)>> \o checked.calls)

handle_km(user, m, avail, recs, rems) ==
    LET km_value == parse_km(m.nums[1])
        path == records_table_path(user)
        row == record_data(user, "WhatsApp", "KM", <<"Registro", "de", "KM">>,
                           km_value.val, None, <<>>)
        ins(ok) == Call("insert", "records", path, user, ok)
        checked == maintenance_alert_logic(user, km_value.val, avail[2], rems)
    IN IF ~km_value.ok
       THEN Return("km", Reply("valor_invalido_km", <<>>, <<>>, <<>>), recs, rems, <<>>)
       ELSE IF ~avail[1]
       THEN Raise("km", "StoreUnavailable", recs, rems, <<ins(FALSE)>>)
       ELSE IF checked.exc # ""
       THEN Raise("km", checked.exc, insert(recs, path, row), rems,
                  <<ins(TRUE)>> \o checked.calls)
       ELSE Return("km", Reply("km_ok", <<>>, <<Format(km_value.val, 2)>>, checked.alerts),
                   insert(recs, path, row), rems, <<ins(TRUE)>> \o checked.calls)

handle_calcular_consumo(user, m, avail, recs, rems) ==
    LET km_inicial == parse_km(m.nums[1])
        km_final == parse_km(m.nums[2])
        litros_consumidos == parse_value(m.nums[3])
    IN IF ~(km_inicial.ok /\ km_final.ok /\ litros_consumidos.ok)
       THEN Return("calcular_consumo", Reply("formato_invalido_calcular_consumo", <<>>, <<>>, <<>>),
                   recs, rems, <<>>)
       ELSE IF litros_consumidos.val.n > 0
       THEN Return("calcular_consumo",
                   Reply("consumo_medio", <<>>,
                         <<Format(RatDiv(RatSub(km_final.val, km_inicial.val),
                                         litros_consumidos.val), 2)>>, <<>>),
                   recs, rems, <<>>)
       ELSE Return("calcular_consumo", Reply("consumo_zero_litros", <<>>, <<>>, <<>>),
                   recs, rems, <<>>)

handle_custo_combustivel(user, m, avail, recs, rems) ==
    LET km_rodado == parse_km(m.nums[1])
        consumo_medio == parse_value(m.nums[2])
        valor_litro == parse_value(m.nums[3])
    IN IF ~(km_rodado.ok /\ consumo_medio.ok /\ valor_litro.ok)
       THEN Return("custo_combustivel",
                   Reply("formato_invalido_custo_combustivel", <<>>, <<>>, <<>>),
                   recs, rems, <<>>)
       ELSE IF consumo_medio.val.n > 0
       THEN Return("custo_combustivel",
                   Reply("custo_estimado", <<>>,
                         <<Format(km_rodado.val, 0), Format(consumo_medio.val, 1),
                           Format(valor_litro.val, 2),
                           Format(RatMul(RatDiv(km_rodado.val, consumo_medio.val),
                                         valor_litro.val), 2)>>, <<>>),
                   recs, rems, <<>>)
       ELSE Return("custo_combustivel", Reply("custo_consumo_zero", <<>>, <<>>, <<>>),
                   recs, rems, <<>>)

\* total of the values of the rows dated on or after day `start`
RECURSIVE total_since(_, _)
total_since(rows, start) ==
    IF rows = <<>> THEN RatInt(0)
    ELSE RatAdd(IF Head(rows).data >= start THEN Head(rows).valor ELSE RatInt(0),
                total_since(Tail(rows), start))

handle_relatorio_km(user, m, avail, recs, rems) ==
    LET path == records_table_path(user)
        km_records == select_km(recs, path, user)
        start_of_week == today.ordinal - today.weekday
        start_of_month == today.ordinal - (today.day - 1)
    IN IF ~avail[1]
       \* except Exception as e_report: the error text is the reply
       THEN Return("relatorio_km", Reply("erro_relatorio_km", <<>>, <<>>, <<>>), recs, rems,
                   <<Call("select", "records", path, user, FALSE)>>)
       ELSE Return("relatorio_km",
                   Reply("relatorio_km", <<>>,
                         <<Format(total_since(km_records, start_of_week), 2),
                           Format(total_since(km_records, start_of_month), 2)>>, <<>>),
                   recs, rems, <<Call("select", "records", path, user, TRUE)>>)

handle_lembrete_manutencao(user, m, avail, recs, rems) ==
    LET tipo_manutencao == capitalize(m.text)
        target_km == parse_km(m.nums[1])
        path == reminders_table_path(user)
    IN IF ~target_km.ok
       THEN Return("lembrete_manutencao", Reply("km_alvo_invalido_lembrete", <<>>, <<>>, <<>>),
                   recs, rems, <<>>)
       ELSE IF ~avail[1]
       THEN Raise("lembrete_manutencao", "StoreUnavailable", recs, rems,
                  <<Call("insert", "reminders", path, user, FALSE)>>)
       ELSE Return("lembrete_manutencao",
                   Reply("lembrete_ok", tipo_manutencao, <<Format(target_km.val, 0)>>, <<>>),
                   recs, insert(rems, path, reminder_data(user, tipo_manutencao, target_km.val)),
                   <<Call("insert", "reminders", path, user, TRUE)>>)

handle_concluido(user, m, avail, recs, rems) ==
    LET tipo_manutencao_concluir == capitalize(m.text)
        path == reminders_table_path(user)
        data == update_data(rems, path, user, tipo_manutencao_concluir)
    IN IF ~avail[1]
       THEN Raise("concluido", "StoreUnavailable", recs, rems,
                  <<Call("update", "reminders", path, user, FALSE)>>)
       ELSE Return("concluido",
                   IF Len(data) > 0
                   THEN Reply("concluido_ok", tipo_manutencao_concluir, <<>>, <<>>)
                   ELSE Reply("concluido_nenhum_ativo", tipo_manutencao_concluir, <<>>, <<>>),
                   recs, update_concluido(rems, path, user, tipo_manutencao_concluir),
                   <<Call("update", "reminders", path, user, TRUE)>>)

\* the lines of the list reply: type and target of every active reminder
reminder_lines(rows) ==
    [i \in 1..Len(rows) |-> [kind |-> "lembrete", tipo |-> rows[i].tipo_manutencao,
                             faltam |-> None, km_alvo |-> Format(rows[i].km_alvo, 0)]]

handle_meus_lembretes(user, m, avail, recs, rems) ==
    LET path == reminders_table_path(user)
        active_reminders == select_active(rems, path, user)
    IN IF ~avail[1]
       THEN Raise("meus_lembretes", "StoreUnavailable", recs, rems,
                  <<Call("select", "reminders", path, user, FALSE)>>)
       ELSE Return("meus_lembretes",
                   IF active_reminders # <<>>
                   THEN Reply("lembretes_ativos", <<>>, <<>>, reminder_lines(active_reminders))
                   ELSE Reply("sem_lembretes_ativos", <<>>, <<>>, <<>>),
                   recs, rems, <<Call("select", "reminders", path, user, TRUE)>>)

\* record_type.strip().lower()
tipo_lower(t) ==
    CASE t = "Receita" -> "receita" [] t = "Despesa" -> "despesa" [] t = "KM" -> "km"
      [] OTHER -> t

\* the sum of the values of the rows of one type dated from `first` to `final`
RECURSIVE total_of(_, _, _, _)
total_of(rows, tipo, first, final) ==
    IF rows = <<>> THEN RatInt(0)
    ELSE RatAdd(IF /\ Head(rows).data >= first /\ Head(rows).data <= final
                   /\ tipo_lower(Head(rows).tipo_registro) = tipo
                THEN Head(rows).valor ELSE RatInt(0),
                total_of(Tail(rows), tipo, first, final))

\* despesas_por_categoria: one line per category, in order of first occurrence
RECURSIVE por_categoria(_, _, _, _)
por_categoria(rows, first, final, acc) ==
    IF rows = <<>> THEN acc
    ELSE LET r == Head(rows)
             counts == /\ r.data >= first /\ r.data <= final
                       /\ tipo_lower(r.tipo_registro) = "despesa"
             at == {i \in 1..Len(acc) : acc[i].tipo = r.categoria}
             next == IF ~counts THEN acc
                     ELSE IF at = {}
                     THEN Append(acc, [kind |-> "categoria", tipo |-> r.categoria,
                                       faltam |-> None, km_alvo |-> r.valor])
                     ELSE [acc EXCEPT ![Max(at)].km_alvo = RatAdd(@, r.valor)]
         IN por_categoria(Tail(rows), first, final, next)

\* the totals and the category lines of a financial report over [first, final]
financial_report(handler, kind, user, avail, recs, rems, first, final) ==
    LET path == records_table_path(user)
        all_records == select_user(recs, path, user)
        ganhos == total_of(all_records, "receita", first, final)
        despesas == total_of(all_records, "despesa", first, final)
        lines == por_categoria(all_records, first, final, <<>>)
    IN IF ~avail[1]
       THEN Raise(handler, "StoreUnavailable", recs, rems,
                  <<Call("select", "records", path, user, FALSE)>>)
       ELSE Return(handler,
                   Reply(kind, <<>>,
                         <<Format(ganhos, 2), Format(despesas, 2),
                           Format(RatSub(ganhos, despesas), 2)>>,
                         [i \in 1..Len(lines) |->
                             [lines[i] EXCEPT !.km_alvo = Format(@, 2)]]),
                   recs, rems, <<Call("select", "records", path, user, TRUE)>>)

handle_relatorio_semanal_financeiro(user, m, avail, recs, rems) ==
    LET start_of_week == today.ordinal - today.weekday
        end_of_week == start_of_week + 6
    IN financial_report("relatorio_semanal_financeiro", "relatorio_semanal", user, avail,
                        recs, rems, start_of_week, end_of_week)

\* record_date >= start_of_month, in today's month and year
handle_relatorio_mensal_financeiro(user, m, avail, recs, rems) ==
    LET start_of_month == today.ordinal - (today.day - 1)
        end_of_month == start_of_month + today.days_in_month - 1
    IN financial_report("relatorio_mensal_financeiro", "relatorio_mensal", user, avail,
                        recs, rems, start_of_month, end_of_month)

-----------------------------------------------------------------------------
(* The inbound messages of the model                                       *)

n0 == N(<<"0">>)
n1 == N(<<"1">>)
n10 == N(<<"1", "0">>)
n40 == N(<<"4", "0">>)
n50 == N(<<"5", "0">>)
n80 == N(<<"8", "0">>)
n100 == N(<<"1", "0", "0">>)
n5_29 == N(<<"5", ".", "2", "9">>)
n6_50 == N(<<"6", ".", "5", "0">>)
n250c75 == N(<<"2", "5", "0", ",", "7", "5">>)
n9600 == N(<<"9", "6", "0", "0">>)
n10000 == N(<<"1", "0", "0", "0", "0">>)
n12345 == N(<<"1", "2", "3", "4", "5">>)
n10500 == N(<<"1", "0", "5", "0", "0">>)
n20p000 == N(<<"2", "0", ".", "0", "0", "0">>)
n55p000 == N(<<"5", "5", ".", "0", "0", "0">>)
n55p000c5 == N(<<"5", "5", ".", "0", "0", "0", ",", "5">>)
n55c000 == N(<<"5", "5", ",", "0", "0", "0">>)
n1p2p3 == N(<<"1", ".", "2", ".", "3">>)
comma == N(<<",">>)
n50p00 == N(<<"5", "0", ".", "0", "0">>)

msg_despesa == <<W("despesa"), W("mercado"), n50>>
msg_despesa_de == <<W("despesa"), W("de"), W("mercado"), n50>>
msg_despesa_zero == <<W("despesa"), W("mercado"), n0>>
msg_receita == <<W("receita"), W("corrida"), n80>>
msg_faturamento_extra == <<W("faturamento"), W("extra"), W("perfume"), n50>>
msg_faturamento_diario == <<W("faturamento"), W("diario"), n250c75>>
msg_abastecer == <<W("abastecer"), n40, n5_29, W("gasolina"), n55p000>>
msg_km_9600 == <<W("km"), n9600>>
msg_km_10000 == <<W("KM"), n10000>>
msg_km_12345 == <<W("KM"), n12345>>
msg_lembrete_oleo == <<W("Lembrete"), W("Oleo"), W("KM"), n10000>>
msg_lembrete_pneu == <<W("lembrete"), W("de"), W("pneu"), W("km"), n20p000>>
msg_concluido_oleo == <<W("lembrete"), W("concluido"), W("oleo")>>
msg_oleo_concluido == <<W("oleo"), W("lembrete"), W("concluido")>>
msg_lembrete_de_oleo_concluido == <<W("lembrete"), W("de"), W("oleo"), W("concluido")>>
msg_oleo_de_lembrete_concluido == <<W("oleo"), W("de"), W("lembrete"), W("concluido")>>
msg_meus_lembretes == <<W("meus"), W("lembretes")>>
msg_relatorio_semana == <<W("relatorio"), W("semana"), W("financeiro")>>
msg_relatorio_mes == <<W("relatorio"), W("mes"), W("financeiro")>>
msg_bom_dia == <<W("bom"), W("dia")>>
msg_gasto == <<W("GASTO"), n50p00, W("POSTO")>>

\* messages whose numeric token does not convert
InvalidNumberMessages ==
    {<<W("despesa"), W("mercado"), comma>>,
     <<W("receita"), W("corrida"), n1p2p3>>,
     <<W("faturamento"), W("extra"), W("perfume"), comma>>,
     <<W("faturamento"), W("diario"), n1p2p3>>,
     <<W("abastecer"), comma, n5_29, W("gasolina"), n55p000>>,
     <<W("abastecer"), n40, n1p2p3, W("gasolina"), n55p000>>,
     <<W("abastecer"), n40, n5_29, W("etanol"), comma>>,
     <<W("km"), comma>>,
     <<W("calcular"), W("consumo"), n10000, comma, n50>>,
     <<W("calcular"), W("custo"), W("combustivel"), n100, n10, n1p2p3>>,
     <<W("lembrete"), W("oleo"), W("km"), comma>>}

\* messages that write a row when the store accepts the call
WritingMessages ==
    {msg_despesa, msg_despesa_de, msg_despesa_zero, msg_receita, msg_faturamento_extra,
     msg_faturamento_diario, msg_abastecer, msg_km_9600, msg_km_10000,
     msg_lembrete_oleo, msg_lembrete_pneu, msg_concluido_oleo, msg_oleo_concluido,
     msg_lembrete_de_oleo_concluido, msg_oleo_de_lembrete_concluido}

OtherMessages ==
    {<<W("oi")>>, <<W("ajuda")>>,
     <<W("calcular"), W("consumo"), n10000, n10500, n50>>,
     <<W("calcular"), W("consumo"), n10000, n10500, n0>>,
     <<W("calcular"), W("custo"), W("combustivel"), n100, n10, n6_50>>,
     <<W("relatorio"), W("km")>>,
     msg_meus_lembretes, msg_relatorio_semana, msg_relatorio_mes,
     msg_bom_dia, msg_gasto, <<W("?")>>, <<>>}

Messages == WritingMessages \cup InvalidNumberMessages \cup OtherMessages

\* the messages of the store-depth specification
StoreMessages ==
    {msg_km_9600, msg_km_10000, msg_lembrete_oleo, msg_lembrete_pneu, msg_concluido_oleo}

\* the messages of the odometer specification
KmMessages == {msg_km_12345, msg_lembrete_oleo, msg_concluido_oleo}


-----------------------------------------------------------------------------
(* whatsapp_webhook                                                        *)

\* the names bound in the module when the handler runs (imports and globals)
module_names == {"os", "re", "datetime", "timedelta", "BaseModel", "FastAPI", "Request",
                 "Response", "HTTPException", "Depends", "requests", "speech", "io",
                 "firebase_admin", "credentials", "auth", "create_client", "Client", "json",
                 "app", "supabase", "app_id", "speech_client"}

\* evaluating a name that is not bound raises NameError
name_defined(name) == name \in module_names

\* the chain of re.match calls inside the try block: the first pattern that
\* matches, with its groups
first_match(b) ==
    IF match_despesa(b).ok THEN [name |-> "despesa", m |-> match_despesa(b)]
    ELSE IF match_receita(b).ok THEN [name |-> "receita", m |-> match_receita(b)]
    ELSE IF match_faturamento_extra(b).ok
    THEN [name |-> "faturamento_extra", m |-> match_faturamento_extra(b)]
    ELSE IF match_faturamento_diario(b).ok
    THEN [name |-> "faturamento_diario", m |-> match_faturamento_diario(b)]
    ELSE IF match_abastecer(b).ok THEN [name |-> "abastecer", m |-> match_abastecer(b)]
    ELSE IF match_km(b).ok THEN [name |-> "km", m |-> match_km(b)]
    ELSE IF match_calcular_consumo(b).ok
    THEN [name |-> "calcular_consumo", m |-> match_calcular_consumo(b)]
    ELSE IF match_custo_combustivel(b).ok
    THEN [name |-> "custo_combustivel", m |-> match_custo_combustivel(b)]
    ELSE IF match_relatorio_km_request(b).ok
    THEN [name |-> "relatorio_km", m |-> match_relatorio_km_request(b)]
    ELSE IF match_lembrete_manutencao(b).ok
    THEN [name |-> "lembrete_manutencao", m |-> match_lembrete_manutencao(b)]
    ELSE IF match_concluido_patterns(b).ok
    THEN [name |-> "concluido", m |-> match_concluido_patterns(b)]
    \* re.match(..., processed_message_body, re_IGNORECASE)
    ELSE IF ~name_defined("re_IGNORECASE") THEN [name |-> "NameError", m |-> NoMatch]
    ELSE IF match_meus_lembretes(b).ok
    THEN [name |-> "meus_lembretes", m |-> match_meus_lembretes(b)]
    ELSE IF match_relatorio_semanal_financeiro(b).ok
    THEN [name |-> "relatorio_semanal_financeiro", m |-> match_relatorio_semanal_financeiro(b)]
    ELSE IF match_relatorio_mensal_financeiro(b).ok
    THEN [name |-> "relatorio_mensal_financeiro", m |-> match_relatorio_mensal_financeiro(b)]
    ELSE [name |-> "", m |-> NoMatch]

\* the characters of the numeric tokens drawn under SpecTokens
TokenChars == {"5", "0", ".", ","}

\* every token of the class [\d\.,]+ over TokenChars up to MaxTokenLen
\* characters, and the grouped readings "55.000", "55,000" and "55.000,5"
ProbeTokens ==
    UNION {[1..k -> TokenChars] : k \in 1..MaxTokenLen}
        \cup {n55p000.n, n55c000.n, n55p000c5.n}

\* "calcular custo combustivel <token> 1 1": the token is the odometer argument
probe_km(tok) == <<W("calcular"), W("custo"), W("combustivel"), N(tok), n1, n1>>

\* "calcular custo combustivel 1 1 <token>": the token is the price argument
probe_value(tok) == <<W("calcular"), W("custo"), W("combustivel"), n1, n1, N(tok)>>

\* the messages of the token specification
TokenMessages == {probe_km(t) : t \in ProbeTokens} \cup {probe_value(t) : t \in ProbeTokens}

\* every body of the model
AllMessages == Messages \cup StoreMessages \cup KmMessages \cup TokenMessages

\* first_match of every body of the model, lower-cased, worked out once
Decoded == [body \in AllMessages |-> first_match(lower(body))] @@ <<>>

\* the try block: the handler of the first pattern that matches
try_block(user, body, avail, recs, rems) ==
    LET name == Decoded[body].name
        m == Decoded[body].m
    IN CASE name = "despesa" -> handle_despesa(user, m, avail, recs, rems)
         [] name = "receita" -> handle_receita(user, m, avail, recs, rems)
         [] name = "faturamento_extra" -> handle_faturamento_extra(user, m, avail, recs, rems)
         [] name = "faturamento_diario" -> handle_faturamento_diario(user, m, avail, recs, rems)
         [] name = "abastecer" -> handle_abastecer(user, m, avail, recs, rems)
         [] name = "km" -> handle_km(user, m, avail, recs, rems)
         [] name = "calcular_consumo" -> handle_calcular_consumo(user, m, avail, recs, rems)
         [] name = "custo_combustivel" -> handle_custo_combustivel(user, m, avail, recs, rems)
         [] name = "relatorio_km" -> handle_relatorio_km(user, m, avail, recs, rems)
         [] name = "lembrete_manutencao" -> handle_lembrete_manutencao(user, m, avail, recs, rems)
         [] name = "concluido" -> handle_concluido(user, m, avail, recs, rems)
         [] name = "NameError" -> Raise("", "NameError", recs, rems, <<>>)
         [] name = "meus_lembretes" -> handle_meus_lembretes(user, m, avail, recs, rems)
         [] name = "relatorio_semanal_financeiro" ->
                handle_relatorio_semanal_financeiro(user, m, avail, recs, rems)
         [] name = "relatorio_mensal_financeiro" ->
                handle_relatorio_mensal_financeiro(user, m, avail, recs, rems)
         \* If no command matched
         [] OTHER -> Return("", Reply("comando_nao_entendido", <<>>, <<>>, <<>>), recs, rems, <<>>)

\* the try block without its except clause: the exception leaves the handler
try_without_except(r) == r

\* except Exception as e: the error is the reply
try_except(r) ==
    IF r.exc # ""
    THEN [r EXCEPT !.ret = <<Reply("erro_inesperado", <<r.exc>>, <<>>, <<>>)>>]
    ELSE r

\* the media branch: what became of the voice attachment
MediaFailures == {"no_media_url", "download_error", "transcription_error"}

\* the handler on one inbound message.  media = "none": a text message, or a
\* voice message whose transcript is `body` (the empty body when the
\* recognizer returned no result)
whatsapp_webhook(user, body, media, avail, recs, rems) ==
    LET processed_message_body == lower(body) IN
    IF media = "no_media_url"
    THEN Return("", Reply("midia_sem_url", <<>>, <<>>, <<>>), recs, rems, <<>>)
    ELSE IF media = "download_error"
    THEN Return("", Reply("erro_descarregar_audio", <<>>, <<>>, <<>>), recs, rems, <<>>)
    ELSE IF media = "transcription_error"
    THEN Return("", Reply("erro_transcricao_audio", <<>>, <<>>, <<>>), recs, rems, <<>>)
    ELSE IF processed_message_body = <<W("oi")>>
    THEN Return("oi", Reply("saudacao_e_ajuda", <<>>, <<>>, <<>>), recs, rems, <<>>)
    ELSE IF processed_message_body = <<W("ajuda")>>
    THEN Return("ajuda", Reply("ajuda", <<>>, <<>>, <<>>), recs, rems, <<>>)
    ELSE try_except(try_block(user, body, avail, recs, rems))

\* the store calls a handler makes at most
store_calls(name) ==
    IF name = "km" THEN 2
    ELSE IF name \in {"", "NameError", "calcular_consumo", "custo_combustivel"} THEN 0
    ELSE 1

\* avail[k]: whether the store accepts the k-th store call of the handler; one
\* choice for every outcome the calls of the body's handler can have
AvailChoices(body) ==
    IF lower(body) \in {<<W("oi")>>, <<W("ajuda")>>} THEN {<<TRUE, TRUE>>}
    ELSE {a \in {<<TRUE, TRUE>>, <<FALSE, TRUE>>, <<TRUE, FALSE>>} :
             \A k \in 1..2 : ~a[k] => k <= store_calls(Decoded[body].name)}

-----------------------------------------------------------------------------
(* The web API                                                             *)

\* bearer tokens: one that verifies for each API user, and one that does not
Tokens == ApiUsers \cup {"invalid"}

\* auth.verify_id_token(token)['uid'], or HTTPException 401
get_current_user_id_from_auth(token) ==
    IF token \in ApiUsers THEN [ok |-> TRUE, uid |-> token] ELSE [ok |-> FALSE, uid |-> ""]

RecordCreates ==
    {[type_of_record |-> "despesa", category |-> <<"mercado">>, value |-> RatInt(50),
      quantity |-> None]}

ReminderCreates == {[maintenance_type |-> <<"oleo">>, target_km |-> RatInt(10000)]}

-----------------------------------------------------------------------------
(* State machine                                                           *)

NoMessage ==
    [via |-> "none", user |-> "", msg |-> <<>>, media |-> "none", handler |-> "",
     replies |-> <<>>, calls |-> <<>>, exc |-> "", seq |-> 0]

\* every inbound request is a new one: a request that repeats the one before
\* it with the same outcome, on a store it leaves as it was, differs from it
\* in `seq`
Received(l, recs, rems) ==
    [l EXCEPT !.seq = IF /\ [l EXCEPT !.seq = last.seq] = last
                         /\ recs = records
                         /\ rems = reminders
                      THEN 1 - last.seq ELSE 0]

RECURSIVE SumLen(_, _)
SumLen(table, paths) ==
    IF paths = {} THEN 0
    ELSE LET p == CHOOSE x \in paths : TRUE
         IN Len(table[p]) + SumLen(table, paths \ {p})

TotalRows(recs, rems) == SumLen(recs, AllUsers) + SumLen(rems, AllUsers)

\* the requests the server handles at the same time
Slots == {"a", "b"}

\* no request in the slot
Idle ==
    [pc |-> "idle", user |-> "", msg |-> <<>>, tipo |-> <<>>, active |-> 0,
     found |-> 0, exc |-> "", replies |-> <<>>]

Init ==
    /\ records = [p \in AllUsers |-> <<>>]
    /\ reminders = [p \in AllUsers |-> <<>>]
    /\ last = NoMessage
    /\ requests = [s \in Slots |-> Idle]

\* one inbound WhatsApp message, handled to its reply
Webhook(user, body, media, avail, bound) ==
    \E r \in {whatsapp_webhook(user, body, media, avail, records, reminders)} :
    /\ TotalRows(r.records, r.reminders) <= bound
    /\ records' = r.records
    /\ reminders' = r.reminders
    /\ last' = Received([via |-> "whatsapp", user |-> user, msg |-> body, media |-> media,
                          handler |-> r.handler, replies |-> r.ret, calls |-> r.calls,
                          exc |-> r.exc, seq |-> 0], r.records, r.reminders)
    /\ UNCHANGED requests

\* POST /api/records
add_record_api(token, record, ok, bound) ==
    LET who == get_current_user_id_from_auth(token)
        user_id == who.uid
        path == records_table_path(user_id)
        row == record_data(user_id, "API Web", capitalize_word(record.type_of_record),
                           capitalize(record.category), record.value, record.quantity, <<>>)
        done(calls, exc) ==
            Received([via |-> "api", user |-> user_id, msg |-> <<>>, media |-> "none",
                      handler |-> "add_record_api", replies |-> <<>>, calls |-> calls,
                      exc |-> exc, seq |-> 0],
                     IF exc = "" THEN insert(records, path, row) ELSE records, reminders)
    IN IF ~who.ok
       THEN /\ last' = done(<<>>, "HTTP401")
            /\ UNCHANGED <<records, reminders, requests>>
       ELSE IF ~ok
       THEN /\ last' = done(<<Call("insert", "records", path, user_id, FALSE)>>, "HTTP500")
            /\ UNCHANGED <<records, reminders, requests>>
       ELSE /\ TotalRows(records, reminders) < bound
            /\ records' = insert(records, path, row)
            /\ last' = done(<<Call("insert", "records", path, user_id, TRUE)>>, "")
            /\ UNCHANGED <<reminders, requests>>

\* POST /api/reminders
add_reminder_api(token, reminder, ok, bound) ==
    LET who == get_current_user_id_from_auth(token)
        user_id == who.uid
        path == reminders_table_path(user_id)
        row == reminder_data(user_id, capitalize(reminder.maintenance_type), reminder.target_km)
        done(calls, exc) ==
            Received([via |-> "api", user |-> user_id, msg |-> <<>>, media |-> "none",
                      handler |-> "add_reminder_api", replies |-> <<>>, calls |-> calls,
                      exc |-> exc, seq |-> 0],
                     records, IF exc = "" THEN insert(reminders, path, row) ELSE reminders)
    IN IF ~who.ok
       THEN /\ last' = done(<<>>, "HTTP401")
            /\ UNCHANGED <<records, reminders, requests>>
       ELSE IF ~ok
       THEN /\ last' = done(<<Call("insert", "reminders", path, user_id, FALSE)>>, "HTTP500")
            /\ UNCHANGED <<records, reminders, requests>>
       ELSE /\ TotalRows(records, reminders) < bound
            /\ reminders' = insert(reminders, path, row)
            /\ last' = done(<<Call("insert", "reminders", path, user_id, TRUE)>>, "")
            /\ UNCHANGED <<records, requests>>

Next ==
    \/ \E u \in GrammarUsers, m \in Messages :
          \E a \in AvailChoices(m) : Webhook(u, m, "none", a, MaxRows)
    \/ \E u \in GrammarUsers, k \in MediaFailures : Webhook(u, <<>>, k, <<TRUE, TRUE>>, MaxRows)
    \/ \E t \in Tokens, r \in RecordCreates, ok \in BOOLEAN : add_record_api(t, r, ok, MaxRows)
    \/ \E t \in Tokens, r \in ReminderCreates, ok \in BOOLEAN : add_reminder_api(t, r, ok, MaxRows)

Spec == Init /\ [][Next]_vars

\* fewer kinds of message, a deeper store
NextStore ==
    \/ \E u \in ChatUsers, m \in StoreMessages :
          \E a \in AvailChoices(m) : Webhook(u, m, "none", a, MaxStoreRows)
    \/ \E t \in Tokens, r \in RecordCreates, ok \in BOOLEAN : add_record_api(t, r, ok, MaxStoreRows)
    \/ \E t \in Tokens, r \in ReminderCreates, ok \in BOOLEAN :
          add_reminder_api(t, r, ok, MaxStoreRows)

SpecStore == Init /\ [][NextStore]_vars

\* the KM update of the example, between reminders set and completed
NextKm ==
    \E u \in ChatUsers, m \in KmMessages :
        \E a \in AvailChoices(m) : Webhook(u, m, "none", a, MaxStoreRows)

SpecKm == Init /\ [][NextKm]_vars

\* the fuel cost command on every numeric token, as odometer and as price
NextTokens ==
    \E u \in GrammarUsers, m \in TokenMessages :
        \E a \in AvailChoices(m) : Webhook(u, m, "none", a, MaxRows)

SpecTokens == Init /\ [][NextTokens]_vars

-----------------------------------------------------------------------------
(* Concurrent complete-reminder commands                                   *)

\* the complete-reminder messages two requests send at the same time
ConcludeMessages == {msg_concluido_oleo, msg_oleo_concluido}

\* the reminders set before the concurrent requests
SetupMessages == {msg_lembrete_oleo, msg_lembrete_pneu}

\* a complete-reminder message arrives and the patterns resolve its type; the
\* request has not called the store yet.  `active` keeps the number of Active
\* reminders of the sender with that type at that moment
Begin(s, user, body) ==
    LET tipo == capitalize(match_concluido_patterns(lower(body)).text)
        path == reminders_table_path(user)
    IN /\ requests[s].pc = "idle"
       /\ first_match(lower(body)).name = "concluido"
       /\ requests' = [requests EXCEPT ![s] =
              [Idle EXCEPT !.pc = "matched", !.user = user, !.msg = body, !.tipo = tipo,
                           !.active = Cardinality({i \in 1..Len(reminders[path]) :
                                          /\ reminders[path][i].user_id = user
                                          /\ reminders[path][i].tipo_manutencao = tipo
                                          /\ reminders[path][i].status = "Ativo"})]]
       /\ UNCHANGED <<records, reminders, last>>

\* the update call of the request: the store applies it in one step, or
\* refuses it
Update(s, ok) ==
    LET r == requests[s]
        path == reminders_table_path(r.user)
    IN /\ r.pc = "matched"
       /\ IF ok
          THEN /\ reminders' = update_concluido(reminders, path, r.user, r.tipo)
               /\ requests' = [requests EXCEPT ![s].pc = "updated",
                                   ![s].found = Len(update_data(reminders, path, r.user, r.tipo))]
          ELSE /\ reminders' = reminders
               /\ requests' = [requests EXCEPT ![s].pc = "updated",
                                                ![s].exc = "StoreUnavailable"]
       /\ UNCHANGED <<records, last>>

\* the reply of the request, from the rows its update returned
Respond(s) ==
    LET r == requests[s]
        path == reminders_table_path(r.user)
        ret == IF r.exc # "" THEN <<Reply("erro_inesperado", <<r.exc>>, <<>>, <<>>)>>
               ELSE IF r.found > 0 THEN <<Reply("concluido_ok", r.tipo, <<>>, <<>>)>>
               ELSE <<Reply("concluido_nenhum_ativo", r.tipo, <<>>, <<>>)>>
    IN /\ r.pc = "updated"
       /\ requests' = [requests EXCEPT ![s].pc = "done", ![s].replies = ret]
       /\ last' = Received([via |-> "whatsapp", user |-> r.user, msg |-> r.msg,
                             media |-> "none", handler |-> "concluido", replies |-> ret,
                             calls |-> <<Call("update", "reminders", path, r.user, r.exc = "")>>,
                             exc |-> r.exc, seq |-> 0], records, reminders)
       /\ UNCHANGED <<records, reminders>>

\* the answered requests leave the server
Finish ==
    /\ \A s \in Slots : requests[s].pc \in {"idle", "done"}
    /\ \E s \in Slots : requests[s].pc = "done"
    /\ requests' = [s \in Slots |-> Idle]
    /\ UNCHANGED <<records, reminders, last>>

\* reminders are set while no complete-reminder request is on the server; the
\* complete-reminder requests then run step by step in any order
NextConcurrent ==
    \/ /\ \A s \in Slots : requests[s].pc = "idle"
       /\ \E u \in ChatUsers, m \in SetupMessages :
              \E a \in AvailChoices(m) : Webhook(u, m, "none", a, MaxRows)
    \/ \E s \in Slots, u \in ChatUsers, m \in ConcludeMessages : Begin(s, u, m)
    \/ \E s \in Slots, ok \in BOOLEAN : Update(s, ok)
    \/ \E s \in Slots : Respond(s)
    \/ Finish

SpecConcurrent == Init /\ [][NextConcurrent]_vars

-----------------------------------------------------------------------------
(* Claims                                                                  *)

\* the last operation was a chat message (text, or a voice message whose
\* attachment was transcribed)
ChatText == last.via = "whatsapp" /\ last.media = "none"

\* C1: every inbound chat message gets exactly one reply body, whatever the
\* path: a command, an invalid number, an unrecognized text, a media failure,
\* a store failure or an internal error.
C1_ExactlyOneReply == last.via = "whatsapp" => Len(last.replies) = 1

\* C1 witness: a store call of the handler failed, and the message has its
\* one reply
C1_StoreFailureAnswered ==
    /\ last.via = "whatsapp"
    /\ last.exc = "StoreUnavailable"
    /\ \E c \in {last.calls[i] : i \in 1..Len(last.calls)} : ~c.ok
    /\ Len(last.replies) = 1

\* the priority order of the command grammar
PriorityOrder ==
    <<"oi", "ajuda", "despesa", "receita", "faturamento_extra", "faturamento_diario",
      "abastecer", "km", "calcular_consumo", "custo_combustivel", "relatorio_km",
      "lembrete_manutencao", "concluido", "meus_lembretes",
      "relatorio_semanal_financeiro", "relatorio_mensal_financeiro">>

\* whether the pattern of a command matches a lower-cased body
pattern_matches(name, b) ==
    CASE name = "oi" -> b = <<W("oi")>>
      [] name = "ajuda" -> b = <<W("ajuda")>>
      [] name = "despesa" -> match_despesa(b).ok
      [] name = "receita" -> match_receita(b).ok
      [] name = "faturamento_extra" -> match_faturamento_extra(b).ok
      [] name = "faturamento_diario" -> match_faturamento_diario(b).ok
      [] name = "abastecer" -> match_abastecer(b).ok
      [] name = "km" -> match_km(b).ok
      [] name = "calcular_consumo" -> match_calcular_consumo(b).ok
      [] name = "custo_combustivel" -> match_custo_combustivel(b).ok
      [] name = "relatorio_km" -> match_relatorio_km_request(b).ok
      [] name = "lembrete_manutencao" -> match_lembrete_manutencao(b).ok
      [] name = "concluido" -> match_concluido_patterns(b).ok
      [] name = "meus_lembretes" -> match_meus_lembretes(b).ok
      [] name = "relatorio_semanal_financeiro" -> match_relatorio_semanal_financeiro(b).ok
      [] name = "relatorio_mensal_financeiro" -> match_relatorio_mensal_financeiro(b).ok

\* the priorities whose pattern matches the body
MatchingPriorities(body) ==
    {i \in 1..Len(PriorityOrder) : pattern_matches(PriorityOrder[i], lower(body))}

Min(S) == CHOOSE x \in S : \A y \in S : x <= y

\* C2: for every message that matches at least one pattern, the handler that
\* runs is the handler of the first matching pattern in the priority order.
C2_FirstMatchRuns ==
    (ChatText /\ MatchingPriorities(last.msg) # {})
        => last.handler = PriorityOrder[Min(MatchingPriorities(last.msg))]

\* C3: a message that matches none of the sixteen patterns is answered with the
\* unrecognized-command help text, and no store call is made for it.
C3_UnrecognizedGetsHelpText ==
    (ChatText /\ MatchingPriorities(last.msg) = {})
        => /\ last.replies = <<Reply("comando_nao_entendido", <<>>, <<>>, <<>>)>>
           /\ last.calls = <<>>

\* the conversion the handler applies to each captured numeric token
NumericArguments(name) ==
    CASE name \in {"despesa", "receita", "faturamento_extra", "faturamento_diario"} -> <<"value">>
      [] name = "abastecer" -> <<"value", "value", "km">>
      [] name \in {"km", "lembrete_manutencao"} -> <<"km">>
      [] name = "calcular_consumo" -> <<"km", "km", "value">>
      [] name = "custo_combustivel" -> <<"km", "value", "value">>
      [] OTHER -> <<>>

\* the corrective format message of each command with numeric arguments
CorrectiveMessage(name) ==
    CASE name = "despesa" -> "valor_invalido_despesa"
      [] name = "receita" -> "valor_invalido_receita"
      [] name = "faturamento_extra" -> "valor_invalido_faturamento_extra"
      [] name = "faturamento_diario" -> "valor_invalido_faturamento_diario"
      [] name = "abastecer" -> "formato_invalido_abastecer"
      [] name = "km" -> "valor_invalido_km"
      [] name = "calcular_consumo" -> "formato_invalido_calcular_consumo"
      [] name = "custo_combustivel" -> "formato_invalido_custo_combustivel"
      [] name = "lembrete_manutencao" -> "km_alvo_invalido_lembrete"

\* the body is a command with numeric arguments, one of which does not convert
SomeTokenFails(body) ==
    LET d == Decoded[body]
        conv == NumericArguments(d.name)
    IN \E i \in 1..Len(conv) :
          ~(IF conv[i] = "km" THEN parse_km(d.m.nums[i]) ELSE parse_value(d.m.nums[i])).ok

\* C4: when a captured numeric token of a command does not convert, the reply
\* is that command's corrective message, no store call is made, and records
\* and reminders are what they were before the message.
C4_InvalidNumberAborts ==
    [][(last'.via = "whatsapp" /\ last'.media = "none" /\ SomeTokenFails(last'.msg))
          => /\ last'.replies =
                   <<Reply(CorrectiveMessage(Decoded[last'.msg].name), <<>>, <<>>, <<>>)>>
             /\ last'.calls = <<>>
             /\ records' = records
             /\ reminders' = reminders]_vars

\* C4 witness: a refuel whose odometer token does not convert, answered with
\* the refuel format message
C4_InvalidRefuelAnswered ==
    /\ ChatText
    /\ Decoded[last.msg].name = "abastecer"
    /\ parse_value(Decoded[last.msg].m.nums[1]).ok
    /\ parse_value(Decoded[last.msg].m.nums[2]).ok
    /\ ~parse_km(Decoded[last.msg].m.nums[3]).ok
    /\ last.replies = <<Reply("formato_invalido_abastecer", <<>>, <<>>, <<>>)>>

\* the rows of every table of the records store
AllRecords == UNION {{records[p][i] : i \in 1..Len(records[p])} : p \in AllUsers}

\* C9: every Income or Expense record persisted by a chat command has a value
\* greater than zero.
C9_PersistedValuePositive ==
    \A r \in AllRecords :
        (r.origem = "WhatsApp" /\ r.tipo_registro \in {"Receita", "Despesa"}) => r.valor.n > 0

\* the rows of every table of the reminders store
AllReminders == UNION {{reminders[p][i] : i \in 1..Len(reminders[p])} : p \in AllUsers}

\* the positions of the reminders store: a table and an index in it
ReminderPositions == {q \in AllUsers \X (1..MaxStoreRows) : q[2] <= Len(reminders[q[1]])}

\* the last operation was a KM update that read the reminders
KmAlertsRead ==
    /\ ChatText
    /\ last.handler = "km"
    /\ Len(last.calls) = 2
    /\ last.calls[2].op = "select"
    /\ last.calls[2].ok

\* the reading of the last KM update
KmReading == parse_km(Decoded[last.msg].m.nums[1]).val

\* the alert rule for one reminder: the set of alerts it calls for, empty or
\* with one alert
AlertsCalledFor(current_km, reminder) ==
    LET target_km == reminder.km_alvo IN
    IF reminder.status # "Ativo" THEN {}
    ELSE IF RatGeq(current_km, RatSub(target_km, RatInt(500))) /\ RatLess(current_km, target_km)
    THEN {[kind |-> "aproximando", tipo |-> reminder.tipo_manutencao,
           faltam |-> Format(RatSub(target_km, current_km), 0),
           km_alvo |-> Format(target_km, 0)]}
    ELSE IF RatGeq(current_km, target_km)
    THEN {[kind |-> "ultrapassado", tipo |-> reminder.tipo_manutencao,
           faltam |-> None, km_alvo |-> Format(target_km, 0)]}
    ELSE {}

\* C5: the alerts of a KM update are, reminder by reminder of the sender, the
\* ones the rule calls for with a margin of 500: approaching (with the distance
\* left) iff target - 500 <= km < target, overdue iff km >= target, none iff
\* km < target - 500, and none for a reminder that is not Active.  Every alert
\* of the reply occurs as many times as there are reminders calling for it.
C5_AlertsFollowRule ==
    KmAlertsRead =>
        LET alerts == last.replies[1].alerts
            mine == {q \in ReminderPositions : reminders[q[1]][q[2]].user_id = last.user}
            calledFor(q) == AlertsCalledFor(KmReading, reminders[q[1]][q[2]])
            all == {alerts[j] : j \in 1..Len(alerts)} \cup UNION {calledFor(q) : q \in mine}
        IN \A a \in all :
              Cardinality({j \in 1..Len(alerts) : alerts[j] = a})
                  = Cardinality({q \in mine : a \in calledFor(q)})

\* C5 witness: a reading of 9600 with an Active reminder at 10000 and another
\* Active reminder farther than 500 away: one approaching alert, 400 left
C5_ApproachingAlertOnly ==
    /\ KmAlertsRead
    /\ KmReading = RatInt(9600)
    /\ \E r \in AllReminders :
          r.user_id = last.user /\ r.status = "Ativo" /\ r.km_alvo = RatInt(10000)
    /\ \E r \in AllReminders :
          r.user_id = last.user /\ r.status = "Ativo" /\ r.km_alvo = RatInt(20000)
    /\ Len(last.replies[1].alerts) = 1
    /\ last.replies[1].alerts[1].kind = "aproximando"
    /\ last.replies[1].alerts[1].faltam = RatInt(400)

\* the operation was a complete-reminder command whose update the store accepted
CompleteCall(l) ==
    /\ l.via = "whatsapp"
    /\ l.media = "none"
    /\ l.handler = "concluido"
    /\ l.calls # <<>>
    /\ l.calls[1].ok

\* the maintenance type a complete-reminder command names
TipoConcluir(l) == capitalize(Decoded[l.msg].m.text)

\* C6: a complete-reminder command issued with an Active reminder of its type
\* replies success; the same command from the same user issued again right
\* after replies that no active reminder was found, raises no error and leaves
\* the reminders as the first call left them.
C6_CompleteTwice ==
    [][CompleteCall(last') =>
          /\ (\E r \in AllReminders :
                 /\ r.user_id = last'.user
                 /\ r.tipo_manutencao = TipoConcluir(last')
                 /\ r.status = "Ativo")
                => last'.replies = <<Reply("concluido_ok", TipoConcluir(last'), <<>>, <<>>)>>
          /\ (/\ CompleteCall(last)
              /\ last.replies[1].kind = "concluido_ok"
              /\ last.user = last'.user
              /\ TipoConcluir(last) = TipoConcluir(last'))
                => /\ last'.replies =
                         <<Reply("concluido_nenhum_ativo", TipoConcluir(last'), <<>>, <<>>)>>
                   /\ last'.exc = ""
                   /\ reminders' = reminders]_vars

\* C6 witness: the command found no active reminder of a type of which the
\* user has a completed one
C6_SecondCallFindsNone ==
    /\ CompleteCall(last)
    /\ last.replies = <<Reply("concluido_nenhum_ativo", TipoConcluir(last), <<>>, <<>>)>>
    /\ \E r \in AllReminders :
          /\ r.user_id = last.user
          /\ r.tipo_manutencao = TipoConcluir(last)
          /\ r.status = "Concluido"

\* the rows of a store that belong to one user
RowsOf(table, user) == [p \in AllUsers |-> SelectSeq(table[p], LAMBDA r : r.user_id = user)]

\* whether the store accepted each call of an operation
AvailOf(l) ==
    <<Len(l.calls) < 1 \/ l.calls[1].ok, Len(l.calls) < 2 \/ l.calls[2].ok>>

\* no table of the store holds rows of two users
TablesUnmixed(table) ==
    \A p \in AllUsers : \A i, j \in 1..Len(table[p]) : table[p][i].user_id = table[p][j].user_id

\* the rows of a table that are not the user's are in place in the table after
OthersRowsKept(before, after, user) ==
    \A p \in AllUsers : \A i \in 1..Len(before[p]) :
        before[p][i].user_id # user => (i <= Len(after[p]) /\ after[p][i] = before[p][i])

\* the rows of the table after that are new or differ from the row before are
\* the user's
ChangedRowsOwned(before, after, user) ==
    \A p \in AllUsers : \A i \in 1..Len(after[p]) :
        (i > Len(before[p]) \/ after[p][i] # before[p][i]) => after[p][i].user_id = user

\* C7: a chat message from user A makes store calls filtered on A only,
\* inserts only rows whose user_id is A into tables that hold A's rows only,
\* changes only reminders whose user_id is A, leaves the rows of every other
\* user as they were, and is answered as it would be if the store held A's
\* rows only.
C7_UserIsolation ==
    [][last'.via = "whatsapp" =>
          LET A == last'.user IN
          /\ \A i \in 1..Len(last'.calls) : last'.calls[i].user = A
          /\ OthersRowsKept(records, records', A)
          /\ OthersRowsKept(reminders, reminders', A)
          /\ ChangedRowsOwned(records, records', A)
          /\ ChangedRowsOwned(reminders, reminders', A)
          /\ TablesUnmixed(records')
          /\ TablesUnmixed(reminders')
          /\ last'.replies =
                whatsapp_webhook(A, last'.msg, last'.media, AvailOf(last'),
                                 RowsOf(records, A), RowsOf(reminders, A)).ret]_vars

\* C7 witness: a user completed a reminder while another user holds an Active
\* reminder of the same type
C7_OtherUsersReminderStaysActive ==
    /\ CompleteCall(last)
    /\ last.replies[1].kind = "concluido_ok"
    /\ \E r \in AllReminders :
          /\ r.user_id # last.user
          /\ r.tipo_manutencao = TipoConcluir(last)
          /\ r.status = "Ativo"

\* C8: records are append-only: every step, by a chat command or by a call of
\* the web API, leaves every record that existed in place with all its fields.
C8_RecordsAppendOnly ==
    [][\A p \in AllUsers :
          /\ Len(records'[p]) >= Len(records[p])
          /\ SubSeq(records'[p], 1, Len(records[p])) = records[p]]_vars

\* C8 witness: a chat user holds two records and the web API user holds one
C8_RecordsKept ==
    /\ \E p \in ChatUsers : Len(records[p]) >= 2
    /\ \E p \in ApiUsers : Len(records[p]) >= 1

\* the operation was a KM update that reached the store
KmCall(l) ==
    /\ l.via = "whatsapp"
    /\ l.media = "none"
    /\ l.handler = "km"
    /\ l.calls # <<>>

\* the KM update inserted its Odometer record
KmInserted(l) == l.calls[1].op = "insert" /\ l.calls[1].table = "records" /\ l.calls[1].ok

\* C10: in a KM update the reminders are read only after the insert of the
\* Odometer record succeeded: a failed insert is followed by no read and no
\* alert.  When the read fails after the insert, the record stays in the store
\* and the reply confirms the update.
C10_AlertCheckAfterInsert ==
    [][KmCall(last') =>
          LET km == parse_km(Decoded[last'.msg].m.nums[1]).val
              added == {p \in AllUsers :
                           /\ Len(records'[p]) = Len(records[p]) + 1
                           /\ records'[p][Len(records'[p])].user_id = last'.user
                           /\ records'[p][Len(records'[p])].tipo_registro = "KM"
                           /\ records'[p][Len(records'[p])].valor = km}
          IN /\ \A i \in 1..Len(last'.calls) :
                   last'.calls[i].table = "reminders" => (i > 1 /\ KmInserted(last'))
             /\ ~KmInserted(last') =>
                   /\ Len(last'.calls) = 1
                   /\ \A i \in 1..Len(last'.replies) : last'.replies[i].alerts = <<>>
                   /\ records' = records
             /\ (KmInserted(last') /\ Len(last'.calls) = 2 /\ ~last'.calls[2].ok) =>
                   /\ added # {}
                   /\ last'.replies = <<Reply("km_ok", <<>>, <<Format(km, 2)>>, <<>>)>>]_vars

\* C10 witness: the insert of the Odometer record succeeded, the read of the
\* reminders failed, and the reply confirms the update
C10_AlertReadFailed ==
    /\ KmCall(last)
    /\ KmInserted(last)
    /\ Len(last.calls) = 2
    /\ last.calls[2].table = "reminders"
    /\ ~last.calls[2].ok
    /\ last.replies[1].kind = "km_ok"

\* the user holds no Active reminder
NoActiveReminder(user) ==
    \A r \in AllReminders : r.user_id = user => r.status # "Ativo"

\* C11: "KM 12345" from a user with no Active reminder, when the store accepts
\* the insert, adds one Odometer record with value 12345 for that user, leaves
\* every other record and every reminder as it was, and is answered with the
\* success message and no alert.
C11_Km12345 ==
    [][(/\ KmCall(last')
        /\ lower(last'.msg) = <<W("km"), n12345>>
        /\ KmInserted(last')
        /\ NoActiveReminder(last'.user))
          => /\ \E p \in AllUsers :
                   /\ Len(records'[p]) = Len(records[p]) + 1
                   /\ SubSeq(records'[p], 1, Len(records[p])) = records[p]
                   /\ records'[p][Len(records'[p])].user_id = last'.user
                   /\ records'[p][Len(records'[p])].tipo_registro = "KM"
                   /\ records'[p][Len(records'[p])].valor = RatInt(12345)
                   /\ \A q \in AllUsers \ {p} : records'[q] = records[q]
             /\ reminders' = reminders
             /\ last'.replies = <<Reply("km_ok", <<>>, <<RatInt(12345)>>, <<>>)>>]_vars

\* C11 witness: the update was confirmed without alert for a user whose only
\* reminder, with a target below the reading, is completed
C11_Km12345Confirmed ==
    /\ KmCall(last)
    /\ lower(last.msg) = <<W("km"), n12345>>
    /\ last.replies = <<Reply("km_ok", <<>>, <<RatInt(12345)>>, <<>>)>>
    /\ NoActiveReminder(last.user)
    /\ \E r \in AllReminders :
          r.user_id = last.user /\ r.status = "Concluido" /\ RatLess(r.km_alvo, RatInt(12345))
    /\ \E r \in AllRecords : r.user_id = last.user /\ r.valor = RatInt(12345)

\* C12: "lembrete concluido oleo" and "oleo lembrete concluido" both run the
\* complete-reminder command for the type "Oleo"; "lembrete oleo km 10000" runs
\* the set-reminder command for "Oleo" at 10000 and never the complete-reminder
\* command.
C12_ReminderCommandPriority ==
    /\ (ChatText /\ lower(last.msg) \in {<<W("lembrete"), W("concluido"), W("oleo")>>,
                                         <<W("oleo"), W("lembrete"), W("concluido")>>})
          => /\ last.handler = "concluido"
             /\ Len(last.calls) = 1
             /\ last.calls[1].op = "update"
             /\ last.calls[1].table = "reminders"
             /\ last.calls[1].ok =>
                   /\ last.replies[1].kind \in {"concluido_ok", "concluido_nenhum_ativo"}
                   /\ last.replies[1].tipo = <<"Oleo">>
    /\ (ChatText /\ lower(last.msg) = <<W("lembrete"), W("oleo"), W("km"), n10000>>)
          => /\ last.handler = "lembrete_manutencao"
             /\ Len(last.calls) = 1
             /\ last.calls[1].op = "insert"
             /\ last.calls[1].ok =>
                   /\ last.replies = <<Reply("lembrete_ok", <<"Oleo">>, <<RatInt(10000)>>, <<>>)>>
                   /\ \E r \in AllReminders :
                         /\ r.user_id = last.user
                         /\ r.tipo_manutencao = <<"Oleo">>
                         /\ r.km_alvo = RatInt(10000)
                         /\ r.status = "Ativo"

\* C12 witness: "oleo lembrete concluido" completed the reminder set for "Oleo"
C12_TypeFirstPhrasingCompletes ==
    /\ ChatText
    /\ lower(last.msg) = <<W("oleo"), W("lembrete"), W("concluido")>>
    /\ last.replies = <<Reply("concluido_ok", <<"Oleo">>, <<>>, <<>>)>>
    /\ \E r \in AllReminders :
          r.user_id = last.user /\ r.tipo_manutencao = <<"Oleo">> /\ r.status = "Concluido"

\* the command of the first pattern, in priority order, that matches the body
IntendedCommand(body) ==
    IF MatchingPriorities(body) = {} THEN ""
    ELSE PriorityOrder[Min(MatchingPriorities(body))]

\* the store accepted every call of the last operation
StoreAccepted == \A i \in 1..Len(last.calls) : last.calls[i].ok

\* the positions of the records store: a table and an index in it
RecordPositions == UNION {{<<p, i>> : i \in 1..Len(records[p])} : p \in AllUsers}

RecordAt(q) == records[q[1]][q[2]]

\* the sender's records of one type dated from `first` to `final`, inclusive
SenderRecords(tipo, first, final) ==
    {q \in RecordPositions :
        /\ RecordAt(q).user_id = last.user
        /\ RecordAt(q).tipo_registro = tipo
        /\ RecordAt(q).data >= first
        /\ RecordAt(q).data <= final}

\* the sum of the values of the records at a set of positions
RECURSIVE SumOfValues(_)
SumOfValues(Q) ==
    IF Q = {} THEN RatInt(0)
    ELSE LET q == CHOOSE x \in Q : TRUE
         IN RatAdd(RecordAt(q).valor, SumOfValues(Q \ {q}))

\* the financial report over [first, final]: income, expense, profit and the
\* sum of the expenses of every category
ReportOver(kind, first, final) ==
    LET incomes == SenderRecords("Receita", first, final)
        expenses == SenderRecords("Despesa", first, final)
        categories == {RecordAt(q).categoria : q \in expenses}
        lines == {[kind |-> "categoria", tipo |-> c, faltam |-> None,
                   km_alvo |-> Format(SumOfValues({q \in expenses : RecordAt(q).categoria = c}), 2)]
                     : c \in categories}
    IN /\ Len(last.replies) = 1
       /\ last.replies[1].kind = kind
       /\ last.replies[1].nums =
             <<Format(SumOfValues(incomes), 2), Format(SumOfValues(expenses), 2),
               Format(RatSub(SumOfValues(incomes), SumOfValues(expenses)), 2)>>
       /\ {last.replies[1].alerts[j] : j \in 1..Len(last.replies[1].alerts)} = lines
       /\ Len(last.replies[1].alerts) = Cardinality(lines)

\* the Monday of the week of today
Monday == today.ordinal - today.weekday

\* the first day of the month of today
FirstOfMonth == today.ordinal - (today.day - 1)

\* C13: the weekly financial report replies with the sender's income, expense,
\* profit and per-category expense sums over the records dated from the Monday
\* to the Sunday of the week of today.
C13_WeeklyReportTotals ==
    (ChatText /\ IntendedCommand(last.msg) = "relatorio_semanal_financeiro" /\ StoreAccepted)
        => ReportOver("relatorio_semanal", Monday, Monday + 6)

\* C14: the monthly financial report replies with the sender's income, expense,
\* profit and per-category expense sums over the records dated from the first
\* day of today's month to today.
C14_MonthlyReportToDate ==
    (ChatText /\ IntendedCommand(last.msg) = "relatorio_mensal_financeiro" /\ StoreAccepted)
        => ReportOver("relatorio_mensal", FirstOfMonth, today.ordinal)

\* a stored record whose date and value the reports can read
WellFormed(r) == r.data \in Int /\ r.valor.d > 0

\* the sender's well-formed Odometer records dated on or after `first`
SenderKmSince(first) ==
    {q \in RecordPositions :
        /\ RecordAt(q).user_id = last.user
        /\ RecordAt(q).tipo_registro = "KM"
        /\ WellFormed(RecordAt(q))
        /\ RecordAt(q).data >= first}

\* C15: every report command whose read the store accepts is answered with its
\* report, and the totals count the well-formed records only: the odometer
\* report gives the totals of the week and of the month, the weekly and the
\* monthly financial report are produced and no error is raised.
C15_ReportsSkipMalformedRows ==
    (ChatText /\ StoreAccepted) =>
        /\ IntendedCommand(last.msg) = "relatorio_km" =>
              last.replies = <<Reply("relatorio_km", <<>>,
                                     <<Format(SumOfValues(SenderKmSince(Monday)), 2),
                                       Format(SumOfValues(SenderKmSince(FirstOfMonth)), 2)>>,
                                     <<>>)>>
        /\ IntendedCommand(last.msg) = "relatorio_semanal_financeiro" =>
              (last.exc = "" /\ last.replies[1].kind = "relatorio_semanal")
        /\ IntendedCommand(last.msg) = "relatorio_mensal_financeiro" =>
              (last.exc = "" /\ last.replies[1].kind = "relatorio_mensal")

\* the last operation was the fuel cost command on `tok` as odometer argument
KmProbe(tok) == ChatText /\ last.msg = probe_km(tok)

\* the last operation was the fuel cost command on `tok` as price argument
ValueProbe(tok) == ChatText /\ last.msg = probe_value(tok)

\* the separators of a token
Separators(tok) == {i \in 1..Len(tok) : tok[i] \in {".", ","}}

\* the token with "." for "," and "," for "."
SwapSeparators(tok) ==
    [i \in 1..Len(tok) |-> IF tok[i] = "." THEN "," ELSE IF tok[i] = "," THEN "." ELSE tok[i]]

\* the reply of the fuel cost command to a converted argument, the other two
\* arguments being 1: the cost is the argument
CostReplyIs(conv) ==
    IF conv.ok
    THEN /\ Len(last.replies) = 1
         /\ last.replies[1].kind = "custo_estimado"
         /\ last.replies[1].nums[4] = Format(conv.val, 2)
    ELSE last.replies = <<Reply("formato_invalido_custo_combustivel", <<>>, <<>>, <<>>)>>

\* C16: an odometer-class token converts as the token without its "." does
\* under the currency rule ("," read as the decimal point), so "55.000" is 55000
\* and "55.000,5" is 55000.5; a currency token with exactly one separator
\* converts to the same value with "," as with ".".
C16_DualNumericRule ==
    \A tok \in ProbeTokens :
        /\ KmProbe(tok) =>
              /\ CostReplyIs(parse_value(remove(tok, ".")))
              /\ tok = n55p000.n => last.replies[1].nums[4] = RatInt(55000)
              /\ tok = n55p000c5.n => last.replies[1].nums[4] = Rat(110001, 2)
        /\ (ValueProbe(tok) /\ Cardinality(Separators(tok)) = 1) =>
              last.replies =
                  whatsapp_webhook(last.user, probe_value(SwapSeparators(tok)), "none",
                                   <<TRUE, TRUE>>, records, reminders).ret

\* C16 witness: "55.000,5" as odometer argument was converted to 55000.5
C16_GroupedOdometerConverted ==
    /\ KmProbe(n55p000c5.n)
    /\ last.replies[1].kind = "custo_estimado"
    /\ last.replies[1].nums[4] = Rat(110001, 2)

\* C17: "GASTO 50.00 POSTO" is handled as an Expense command: the reply confirms
\* the expense with the category "Posto" and the amount 50.00, and one Expense
\* record of the sender holds that category and that value.
C17_GastoPostoRecorded ==
    (ChatText /\ last.msg = msg_gasto)
        => /\ last.replies = <<Reply("despesa_ok", <<"Posto">>, <<RatInt(50)>>, <<>>)>>
           /\ \E q \in RecordPositions :
                 /\ RecordAt(q).user_id = last.user
                 /\ RecordAt(q).tipo_registro = "Despesa"
                 /\ RecordAt(q).categoria = <<"Posto">>
                 /\ RecordAt(q).valor = RatInt(50)

\* the four complete-reminder phrasings of a type text
Phrasings(X) ==
    {<<W("lembrete"), W("concluido")>> \o X,
     X \o <<W("lembrete"), W("concluido")>>,
     <<W("lembrete"), W("de")>> \o X \o <<W("concluido")>>,
     X \o <<W("de"), W("lembrete"), W("concluido")>>}

\* C18: each of the four complete-reminder phrasings of the type text "oleo"
\* runs the complete-reminder command with the maintenance type "Oleo".
C18_PhrasingsEquivalent ==
    (ChatText /\ lower(last.msg) \in Phrasings(<<W("oleo")>>))
        => /\ last.handler = "concluido"
           /\ TipoConcluir(last) = <<"Oleo">>
           /\ CompleteCall(last) => last.replies[1].tipo = <<"Oleo">>

\* C19: a complete-reminder command the store accepted sets to Completed every
\* Active reminder of the sender with the named type, and changes no other
\* reminder and no record; in no step of any operation does a Completed
\* reminder change or go back to Active.
C19_CompleteOnlyMatching ==
    [][/\ CompleteCall(last') =>
              /\ records' = records
              /\ \A p \in AllUsers :
                    /\ Len(reminders'[p]) = Len(reminders[p])
                    /\ \A i \in 1..Len(reminders[p]) :
                          reminders'[p][i] =
                              IF /\ reminders[p][i].user_id = last'.user
                                 /\ reminders[p][i].tipo_manutencao = TipoConcluir(last')
                                 /\ reminders[p][i].status = "Ativo"
                              THEN [reminders[p][i] EXCEPT !.status = "Concluido"]
                              ELSE reminders[p][i]
       /\ \A p \in AllUsers : \A i \in 1..Len(reminders[p]) :
              reminders[p][i].status = "Concluido" =>
                  /\ i <= Len(reminders'[p])
                  /\ reminders'[p][i] = reminders[p][i]]_vars

\* C19 witness: the command completed the sender's reminder of its type while
\* the sender's reminder of another type and another user's reminder of the
\* same type are Active
C19_OtherTypeAndUserStayActive ==
    /\ CompleteCall(last)
    /\ last.replies[1].kind = "concluido_ok"
    /\ \E r \in AllReminders :
          /\ r.user_id = last.user
          /\ r.tipo_manutencao = TipoConcluir(last)
          /\ r.status = "Concluido"
    /\ \E r \in AllReminders :
          /\ r.user_id = last.user
          /\ r.tipo_manutencao # TipoConcluir(last)
          /\ r.status = "Ativo"
    /\ \E r \in AllReminders :
          /\ r.user_id # last.user
          /\ r.tipo_manutencao = TipoConcluir(last)
          /\ r.status = "Ativo"

\* the overdue alert of a reminder
OverdueAlert(r) ==
    [kind |-> "ultrapassado", tipo |-> r.tipo_manutencao, faltam |-> None,
     km_alvo |-> Format(r.km_alvo, 0)]

\* C20: a KM update leaves every reminder as it was; whenever it reads the
\* reminders, each Active reminder of the sender whose target the reading has
\* reached gets its overdue alert in the reply and is Active afterwards, so the
\* alert comes again with every later KM update until the reminder is completed.
C20_KmKeepsReminders ==
    [][KmCall(last') =>
          LET km == parse_km(Decoded[last'.msg].m.nums[1]).val
              alerts == last'.replies[1].alerts
          IN /\ reminders' = reminders
             /\ (Len(last'.calls) = 2 /\ last'.calls[2].ok) =>
                   \A p \in AllUsers : \A i \in 1..Len(reminders[p]) :
                       (/\ reminders[p][i].user_id = last'.user
                        /\ reminders[p][i].status = "Ativo"
                        /\ RatGeq(km, reminders[p][i].km_alvo))
                           => /\ \E j \in 1..Len(alerts) : alerts[j] = OverdueAlert(reminders[p][i])
                              /\ reminders'[p][i].status = "Ativo"]_vars

\* C20 witness: the sender has two Odometer records at or over the target of a
\* reminder, the last KM update replied the overdue alert of that reminder, and
\* the reminder is Active
C20_OverdueAlertRepeated ==
    /\ KmAlertsRead
    /\ \E r \in AllReminders :
          /\ r.user_id = last.user
          /\ r.status = "Ativo"
          /\ RatGeq(KmReading, r.km_alvo)
          /\ \E j \in 1..Len(last.replies[1].alerts) :
                last.replies[1].alerts[j] = OverdueAlert(r)
          /\ Cardinality({q \in RecordPositions :
                             /\ RecordAt(q).user_id = last.user
                             /\ RecordAt(q).tipo_registro = "KM"
                             /\ RatGeq(RecordAt(q).valor, r.km_alvo)}) >= 2

\* the store writes among the calls of an operation
WriteCalls(l) == {i \in 1..Len(l.calls) : l.calls[i].op \in {"insert", "update"}}

\* the commands that only read or compute
ReadOnlyCommands ==
    {"", "oi", "ajuda", "calcular_consumo", "custo_combustivel", "relatorio_km",
     "meus_lembretes", "relatorio_semanal_financeiro", "relatorio_mensal_financeiro"}

\* table' is table with one row appended to one of its paths
OneRowAppended(old, new) ==
    \E p \in AllUsers :
        /\ Len(new[p]) = Len(old[p]) + 1
        /\ SubSeq(new[p], 1, Len(old[p])) = old[p]
        /\ \A o \in AllUsers \ {p} : new[o] = old[o]

\* table' differs from table in the status of rows only
OnlyStatusChanged(old, new) ==
    \A p \in AllUsers :
        /\ Len(new[p]) = Len(old[p])
        /\ \A i \in 1..Len(old[p]) : [new[p][i] EXCEPT !.status = old[p][i].status] = old[p][i]

\* C21: a chat message makes at most one store write, an insert or a status
\* update, never issued again after a failure; when the write fails, or there
\* is none, the store is as it was before the message, and when it succeeds the
\* store holds the effect of that one call alone; greeting, help, calc, report
\* and list commands make no write and leave the store as it was.
C21_AtMostOneWrite ==
    [][last'.via = "whatsapp" =>
          /\ Cardinality(WriteCalls(last')) <= 1
          /\ (\A i \in WriteCalls(last') : ~last'.calls[i].ok)
                => (records' = records /\ reminders' = reminders)
          /\ \A i \in WriteCalls(last') :
                last'.calls[i].ok =>
                    IF last'.calls[i].op = "update"
                    THEN records' = records /\ OnlyStatusChanged(reminders, reminders')
                    ELSE IF last'.calls[i].table = "records"
                    THEN reminders' = reminders /\ OneRowAppended(records, records')
                    ELSE records' = records /\ OneRowAppended(reminders, reminders')
          /\ IntendedCommand(last'.msg) \in ReadOnlyCommands
                => /\ WriteCalls(last') = {}
                   /\ records' = records
                   /\ reminders' = reminders]_vars

\* C21 witness: the insert of a refuel command failed and was not issued again;
\* the store holds no row
C21_FailedInsertLeavesNothing ==
    /\ ChatText
    /\ last.handler = "abastecer"
    /\ Len(last.calls) = 1
    /\ last.calls[1].op = "insert"
    /\ ~last.calls[1].ok
    /\ TotalRows(records, reminders) = 0

\* both slots hold an answered complete-reminder command of the same user for
\* the same type, the store applied both updates, and the sender had exactly
\* one Active reminder of the type when the first of the two arrived
TwoCompletesOfOneReminder(s, t) ==
    /\ s # t
    /\ requests[s].pc = "done" /\ requests[t].pc = "done"
    /\ requests[s].user = requests[t].user
    /\ requests[s].tipo = requests[t].tipo
    /\ requests[s].exc = "" /\ requests[t].exc = ""
    /\ requests[s].active <= 1 /\ requests[t].active <= 1
    /\ requests[s].active = 1 \/ requests[t].active = 1

\* C22: two complete-reminder commands of one user for one type, run step by
\* step in any order against exactly one Active reminder of the type: one
\* replies success, the other that no active reminder was found, and the
\* reminder is Completed.
C22_ConcurrentCompletes ==
    \A s, t \in Slots :
        TwoCompletesOfOneReminder(s, t) =>
            /\ {requests[s].replies[1].kind, requests[t].replies[1].kind}
                   = {"concluido_ok", "concluido_nenhum_ativo"}
            /\ \A r \in AllReminders :
                  (r.user_id = requests[s].user /\ r.tipo_manutencao = requests[s].tipo)
                      => r.status = "Concluido"
            /\ \E r \in AllReminders :
                  /\ r.user_id = requests[s].user
                  /\ r.tipo_manutencao = requests[s].tipo
                  /\ r.status = "Concluido"

\* C22 witness: both commands arrived while the reminder was Active, before
\* either update, and both are answered
C22_BothArrivedBeforeUpdate ==
    /\ TwoCompletesOfOneReminder("a", "b")
    /\ requests["a"].active = 1
    /\ requests["b"].active = 1
    /\ requests["a"].msg # requests["b"].msg

====
